---- MODULE Spec2Model ----
(***************************************************************************)
(* Scene graph of engine-0.2: BasicNode ownership (child lists, parent     *)
(* back references), the EngineManager registries of drawable and debug-UI *)
(* nodes, and the scene-root slot.                                         *)
(*                                                                         *)
(* Every public call is one action.  Inside a call the statements run in   *)
(* program order on a "micro state" st = [ch, par, geo, ui, ev]; ev is the *)
(* ordered log of the statements the call executed, each with a snapshot   *)
(* of the node it touched, so that ordering inside a call can be stated.   *)
(***************************************************************************)
EXTENDS Integers, Sequences, FiniteSets, TLC

\* ---------------------------------------------------------------- bounds
MaxNodes == 3
MaxChildren == 3

None == 0
Ids == 1..MaxNodes

\* the dynamic types the client constructs, in construction order and round robin:
\* a BasicNode, a GeometryComponent, a Ui::UiDebugWindow, a BasicNode, ...
ClassOf == <<"plain", "geometry", "debugUi">>

VARIABLES
    LASTID,         \* BasicNode::LASTID
    m_childNodes,   \* BasicNode::m_childNodes, per node
    m_parentNode,   \* BasicNode::m_parentNode, per node (None: expired/empty)
    m_sceneNode,    \* EngineManager::m_sceneNode
    m_geometry,     \* EngineManager: ids in the drawable registry
    m_debugUi,      \* EngineManager: ids in the debug-UI registry
    last,           \* history: the last call, its arguments, result and statement log
    trip,           \* history: the attach/detach round trip of one drawable node
    dynType,        \* the dynamic type of each node, fixed when the client constructs it
    m_position,     \* TransformComponent::m_position, per node
    m_rotation,     \* TransformComponent::m_rotation, per node (quarter turns about z)
    m_scale,        \* TransformComponent::m_scale, per node
    m_modelMatrix,  \* TransformComponent::m_modelMatrix, per node
    m_camera,       \* EngineManager::m_camera (None: no camera set)
    m_buffers,      \* the GPU buffers each drawable holds (absent: the handle is -1)
    frame,          \* history: the last engine call, its result and the calls of this frame
    m_possibleTiles, \* FieldTile::m_possibleTiles, per cell of the field
    m_tilePlaced,   \* FieldTile::m_tilePlaced, per cell of the field
    prop            \* the running setTile call: its arguments and its updateNeighbors frames

kind(n) == dynType[n]

transformVars == <<m_position, m_rotation, m_scale, m_modelMatrix>>
engineVars == <<m_camera, m_buffers, frame>>
tileVars == <<m_possibleTiles, m_tilePlaced, prop>>

\* the state of the other subsystems, which no BasicNode call touches
rest == <<dynType, transformVars, engineVars, tileVars>>

vars == <<LASTID, m_childNodes, m_parentNode, m_sceneNode, m_geometry, m_debugUi, last, trip,
          rest>>

\* ---------------------------------------------------------------- helpers
Constructed == 1..LASTID

isGeometry(n) == kind(n) = "geometry"
isDebugUi(n) == kind(n) = "debugUi"

SeqToSet(s) == {s[i] : i \in 1..Len(s)}

\* erase the element at position i of a vector
erase(s, i) == [j \in 1..(Len(s) - 1) |-> IF j < i THEN s[j] ELSE s[j + 1]]

\* nodes reachable from n through child lists, n included
RECURSIVE Reach(_, _, _)
Reach(ch, frontier, seen) ==
    IF frontier = {} THEN seen
    ELSE LET nxt == UNION {SeqToSet(ch[n]) : n \in frontier} \ seen
         IN Reach(ch, nxt, seen \cup nxt)
Subtree(ch, n) == Reach(ch, {n}, {n})
Live == IF m_sceneNode = None THEN {} ELSE Subtree(m_childNodes, m_sceneNode)

\* the micro state a call starts from
Begin == [ch |-> m_childNodes, par |-> m_parentNode, geo |-> m_geometry, ui |-> m_debugUi,
          ev |-> <<>>]

\* one executed statement: e on node n, with n's registration and parent right after it
Log(st, e, n) ==
    [st EXCEPT !.ev = Append(@, [e |-> e, n |-> n,
                                 reg |-> n \in (st.geo \cup st.ui),
                                 par |-> st.par[n]])]

\* ---------------------------------------------------------------- registry (EngineManager)
\* id -> node mappings; adding an id twice or removing an absent id changes nothing
addGeometryToScene(st, n) == Log([st EXCEPT !.geo = @ \cup {n}], "addGeometry", n)

addDebugUiToScene(st, n) == Log([st EXCEPT !.ui = @ \cup {n}], "addDebugUi", n)

\* both overloads (by id, by BasicNode*) remove the drawable entry of that node id
removeGeometryFromScene(st, id) == Log([st EXCEPT !.geo = @ \ {id}], "removeGeometry", id)

removeDebugUiFromScene(st, id) == Log([st EXCEPT !.ui = @ \ {id}], "removeDebugUi", id)

\* ---------------------------------------------------------------- BasicNode
setParent_keepOnNull(st, n, p) ==
    Log(IF p = None THEN st ELSE [st EXCEPT !.par[n] = p], "setParent", n)

setParent(st, n, p) == Log([st EXCEPT !.par[n] = p], "setParent", n)

\* virtual hook, empty in BasicNode; the log keeps the moment it ran
start(st, n) == Log(st, "start", n)

cleanupNode_wholeSubtree(st, n) ==
    LET s1 == setParent(st, n, None)
        sub == Subtree(st.ch, n)
    IN Log([s1 EXCEPT !.geo = @ \ sub, !.ui = @ \ sub], "removeSubtree", n)

\* setParent(nullptr) first, then the node's own registry entry
cleanupNode(st, n) ==
    LET s1 == setParent(st, n, None)
    IN IF isGeometry(n) THEN removeGeometryFromScene(s1, n)
       ELSE IF isDebugUi(n) THEN removeDebugUiFromScene(s1, n)
       ELSE s1

addChild_startFirst(st, p, c) ==
    LET s1 == Log([st EXCEPT !.ch[p] = Append(@, c)], "emplace_back", c)
        s2 == start(setParent(s1, c, p), c)
    IN IF isGeometry(c) THEN addGeometryToScene(s2, c)
       ELSE IF isDebugUi(c) THEN addDebugUiToScene(s2, c)
       ELSE s2

addChild(st, p, c) ==
    LET s1 == Log([st EXCEPT !.ch[p] = Append(@, c)], "emplace_back", c)
        s2 == setParent(s1, c, p)
        s3 == IF isGeometry(c) THEN addGeometryToScene(s2, c)
              ELSE IF isDebugUi(c) THEN addDebugUiToScene(s2, c)
              ELSE s2
    IN start(s3, c)

RECURSIVE visitFrom_selfFirst(_, _, _)
visitFrom_selfFirst(ch, n, i) ==
    (IF i = 1 THEN <<n>> ELSE <<>>) \o
    (IF i > Len(ch[n]) THEN <<>>
     ELSE visitFrom_selfFirst(ch, ch[n][i], 1) \o visitFrom_selfFirst(ch, n, i + 1))

\* the nodes func is called on, in call order: every child's walk, then the node itself
RECURSIVE visitFrom(_, _, _)
visitFrom(ch, n, i) ==
    IF i > Len(ch[n]) THEN <<n>>
    ELSE visitFrom(ch, ch[n][i], 1) \o visitFrom(ch, n, i + 1)

callOnAllChildrenRecursiveAndSelf(ch, n) == visitFrom(ch, n, 1)

\* every child's callOnAllChildrenRecursiveAndSelf from position i on; func(this) is not
\* called
RECURSIVE walkChildren(_, _, _)
walkChildren(ch, n, i) ==
    IF i > Len(ch[n]) THEN <<>>
    ELSE callOnAllChildrenRecursiveAndSelf(ch, ch[n][i]) \o walkChildren(ch, n, i + 1)

callOnAllChildrenRecursive(ch, n) == walkChildren(ch, n, 1)

\* the lambda of the teardown walks, [engineManager](BasicNode* node)
\* { engineManager->removeGeometryFromScene(node); }, applied along a walk
RECURSIVE unregisterWalk(_, _)
unregisterWalk(st, visit) ==
    IF visit = <<>> THEN st
    ELSE unregisterWalk(removeGeometryFromScene(st, Head(visit)), Tail(visit))

\* first child with that id is erased and cleaned up; result [st, ret], ret = None if absent
detatchChild_lastOnMiss(st, p, id) ==
    LET hits == {i \in 1..Len(st.ch[p]) : st.ch[p][i] = id}
        i == IF hits = {} THEN Len(st.ch[p]) ELSE CHOOSE h \in hits : \A k \in hits : h <= k
    IN IF i = 0 THEN [st |-> st, ret |-> None]
       ELSE LET c == st.ch[p][i]
                s1 == Log([st EXCEPT !.ch[p] = erase(@, i)], "erase", c)
            IN [st |-> cleanupNode(s1, c), ret |-> IF hits = {} THEN None ELSE c]

detatchChild(st, p, id) ==
    LET hits == {i \in 1..Len(st.ch[p]) : st.ch[p][i] = id}
    IN IF hits = {} THEN [st |-> st, ret |-> None]
       ELSE LET i == CHOOSE h \in hits : \A k \in hits : h <= k
                s1 == Log([st EXCEPT !.ch[p] = erase(@, i)], "erase", id)
            IN [st |-> cleanupNode(s1, id), ret |-> id]

RECURSIVE detachLoop_noCleanup(_, _, _)
detachLoop_noCleanup(st, p, i) ==
    IF i > Len(st.ch[p]) THEN st
    ELSE LET child == st.ch[p][i]
             s1 == unregisterWalk(st, callOnAllChildrenRecursiveAndSelf(st.ch, child))
         IN detachLoop_noCleanup(setParent(s1, child, None), p, i + 1)

\* the loop body of detatchAllChildren for the children from position i on
RECURSIVE detachLoop(_, _, _)
detachLoop(st, p, i) ==
    IF i > Len(st.ch[p]) THEN st
    ELSE LET child == st.ch[p][i]
             s1 == unregisterWalk(st, callOnAllChildrenRecursiveAndSelf(st.ch, child))
             s2 == cleanupNode(s1, child)
             s3 == setParent(s2, child, None)
         IN detachLoop(s3, p, i + 1)

\* result [st, ret]: ret is the moved-out child vector, m_childNodes is left empty
detatchAllChildren(st, p) ==
    LET s1 == detachLoop(st, p, 1)
    IN [st |-> [s1 EXCEPT !.ch[p] = <<>>], ret |-> st.ch[p]]

detatchFromParent(st, n) ==
    LET s1 == unregisterWalk(st, callOnAllChildrenRecursiveAndSelf(st.ch, n))
    IN setParent(s1, n, None)

\* BasicNode::removeAllChildNodes, as setScene needs it: every node below p leaves both
\* registries, the children of p lose their parent link, p's child list is emptied
removeAllChildNodes(st, p) ==
    LET below == Subtree(st.ch, p) \ {p}
        kids == SeqToSet(st.ch[p])
    IN Log([st EXCEPT !.geo = @ \ below, !.ui = @ \ below,
                      !.par = [n \in Ids |-> IF n \in kids THEN None ELSE @[n]],
                      !.ch[p] = <<>>], "removeAllChildNodes", p)

\* ---------------------------------------------------------------- EngineManager::setScene
\* result [st, root]
setScene(st, root, sceneNode) ==
    LET s1 == IF root # None THEN removeAllChildNodes(st, root) ELSE st
    IN [st |-> s1, root |-> sceneNode]

\* ---------------------------------------------------------------- actions
\* Nodes are shared_ptr owned; the client keeps its handles, so no node is destroyed and
\* no weak parent link expires during a run.
\* a call returns: the micro state becomes the program state, the call is remembered
Commit(st, op, self, arg, ret, det) ==
    /\ m_childNodes' = st.ch
    /\ m_parentNode' = st.par
    /\ m_geometry' = st.geo
    /\ m_debugUi' = st.ui
    /\ last' = [op |-> op, self |-> self, arg |-> arg, ret |-> ret, det |-> det, ev |-> st.ev]

\* ---------------------------------------------------------------- transforms
\* glm::vec3 and glm::mat4 over the integers; a matrix is the tuple of its rows.
\* Rotations are quarter turns about the z axis, so every entry stays an integer.
MaxCoord == 1
MaxScale == 2

ZeroVec == <<0, 0, 0>>
OneVec == <<1, 1, 1>>
VecAdd(a, b) == <<a[1] + b[1], a[2] + b[2], a[3] + b[3]>>
VecNeg(a) == <<0 - a[1], 0 - a[2], 0 - a[3]>>

Identity == <<<<1, 0, 0, 0>>, <<0, 1, 0, 0>>, <<0, 0, 1, 0>>, <<0, 0, 0, 1>>>>
Mul(A, B) ==
    [i \in 1..4 |-> [j \in 1..4 |->
        A[i][1] * B[1][j] + A[i][2] * B[2][j] + A[i][3] * B[3][j] + A[i][4] * B[4][j]]]

translate(v) == <<<<1, 0, 0, v[1]>>, <<0, 1, 0, v[2]>>, <<0, 0, 1, v[3]>>, <<0, 0, 0, 1>>>>
scale(v) == <<<<v[1], 0, 0, 0>>, <<0, v[2], 0, 0>>, <<0, 0, v[3], 0>>, <<0, 0, 0, 1>>>>

\* quaternions of rotations about z by a multiple of 90 degrees, as the number of
\* quarter turns; the product of two of them adds the turns
Quarter == <<[cos |-> 1, sin |-> 0], [cos |-> 0, sin |-> 1],
             [cos |-> -1, sin |-> 0], [cos |-> 0, sin |-> -1]>>
angleAxis(degrees) == (degrees \div 90) % 4
quatFromEuler(rotDegrees) == (rotDegrees[3] \div 90) % 4
quatMul(q, r) == (q + r) % 4
toMat4(q) ==
    LET c == Quarter[q + 1].cos
        s == Quarter[q + 1].sin
    IN <<<<c, 0 - s, 0, 0>>, <<s, c, 0, 0>>, <<0, 0, 1, 0>>, <<0, 0, 0, 1>>>>

updateModelMatrix_scaleFirst(position, rotation, scl) ==
    Mul(Mul(scale(scl), translate(position)), toMat4(rotation))

updateModelMatrix(position, rotation, scl) ==
    Mul(Mul(translate(position), toMat4(rotation)), scale(scl))

RECURSIVE getGlobalModelMatrix_localFirst(_, _, _)
getGlobalModelMatrix_localFirst(par, mm, n) ==
    IF par[n] # None THEN Mul(mm[n], getGlobalModelMatrix_localFirst(par, mm, par[n]))
    ELSE mm[n]

RECURSIVE getGlobalModelMatrix(_, _, _)
getGlobalModelMatrix(par, mm, n) ==
    IF par[n] # None THEN Mul(getGlobalModelMatrix(par, mm, par[n]), mm[n]) ELSE mm[n]

getGlobalPosition(par, mm, n) ==
    LET g == getGlobalModelMatrix(par, mm, n) IN <<g[1][4], g[2][4], g[3][4]>>

InitTransform ==
    /\ m_position = [n \in Ids |-> ZeroVec]
    /\ m_rotation = [n \in Ids |-> 0]
    /\ m_scale = [n \in Ids |-> OneVec]
    /\ m_modelMatrix = [n \in Ids |-> Identity]

\* ---------------------------------------------------------------- engine state
Buffers == {"vertex", "normal", "texture"}

InitEngine ==
    /\ m_camera = None
    /\ m_buffers = [n \in Ids |-> {}]
    /\ frame = [op |-> "init", ret |-> FALSE, skipped |-> FALSE, log |-> <<>>]

\* ---------------------------------------------------------------- tile field
\* the field of the tile-placement routine: FieldSize x FieldSize cells and the tile types
\* with the neighbours each type allows
FieldSize == 2
Cells == (0..(FieldSize - 1)) \X (0..(FieldSize - 1))
GetAllTiles == <<"water", "sand", "grass">>
allowedNeighbors(type) ==
    CASE type = "water" -> {"water", "sand"}
      [] type = "sand" -> {"water", "sand", "grass"}
      [] type = "grass" -> {"sand", "grass"}

InitTiles ==
    /\ m_possibleTiles = [cell \in Cells |-> GetAllTiles]
    /\ m_tilePlaced = [cell \in Cells |-> FALSE]
    /\ prop = [stack |-> <<>>, on |-> FALSE, field |-> [cell \in Cells |-> GetAllTiles],
               tilePos |-> <<0, 0>>, type |-> GetAllTiles[1]]

GetNeighborOffsets ==
    <<<<1, 1>>, <<0, 1>>, <<-1, 1>>, <<-1, 0>>, <<-1, -1>>, <<0, -1>>, <<1, -1>>, <<1, 0>>>>

\* offset.x < 0 || offset.x >= FIELD_SIZE.x || ... : continue
inField(offset) == offset \in Cells

\* the cells the loop over GetNeighborOffsets() reaches from tilePos, in loop order
Neighbors(tilePos) ==
    SelectSeq([i \in 1..Len(GetNeighborOffsets) |->
                  <<GetNeighborOffsets[i][1] + tilePos[1], GetNeighborOffsets[i][2] + tilePos[2]>>],
              inField)

\* found: some possible type of the neighbour allows possibleTileType next to it
found(possibleTileType, possibleTilesOfNeighborField) ==
    \E i \in 1..Len(possibleTilesOfNeighborField) :
        possibleTileType \in allowedNeighbors(possibleTilesOfNeighborField[i])

\* the loop that fills tilesToRemove, from position i on; it stops as soon as one type
\* would be left
RECURSIVE tilesToRemove(_, _, _, _)
tilesToRemove(possibleTiles, ofNeighbor, i, removed) ==
    IF i > Len(possibleTiles) THEN removed
    ELSE LET r2 == IF found(possibleTiles[i], ofNeighbor) THEN removed
                   ELSE Append(removed, possibleTiles[i])
         IN IF Len(possibleTiles) - Len(r2) = 1 THEN r2
            ELSE tilesToRemove(possibleTiles, ofNeighbor, i + 1, r2)

\* erase(remove_if(...)): the types not in tilesToRemove, in their order
eraseRemoved(possibleTiles, removed) ==
    LET keep(tileToCheck) == tileToCheck \notin SeqToSet(removed)
    IN SelectSeq(possibleTiles, keep)

\* the loop over the neighbours from position k on; it stops when one type is left
RECURSIVE reducePossible(_, _, _, _)
reducePossible(field, possibleTiles, nbrs, k) ==
    IF k > Len(nbrs) THEN possibleTiles
    ELSE LET p2 == eraseRemoved(possibleTiles,
                                tilesToRemove(possibleTiles, field[nbrs[k]], 1, <<>>))
         IN IF Len(p2) = 1 THEN p2 ELSE reducePossible(field, p2, nbrs, k + 1)

RECURSIVE updatePossibleTiles(_, _)
RECURSIVE updateNeighborsFrom(_, _, _)

\* the loop of updateNeighbors from position k on: each neighbour's updatePossibleTiles
\* sees the field as the calls before it left it
updateNeighborsFrom(field, tilePos, k) ==
    IF k > Len(Neighbors(tilePos)) THEN field
    ELSE updateNeighborsFrom(updatePossibleTiles(field, Neighbors(tilePos)[k]), tilePos, k + 1)

updateNeighbors(field, tilePos) == updateNeighborsFrom(field, tilePos, 1)

\* field is the grid of m_possibleTiles, the result is the grid after the call
updatePossibleTiles(field, tilePos) ==
    IF Len(field[tilePos]) = 1 THEN field
    ELSE LET possibleTiles == reducePossible(field, field[tilePos], Neighbors(tilePos), 1)
         IN IF Len(field[tilePos]) # Len(possibleTiles)
            THEN updateNeighbors([field EXCEPT ![tilePos] = possibleTiles], tilePos)
            ELSE field

\* m_possibleTiles.clear(); push_back(type); updateNeighbors(field)
setTile(field, tilePos, type) == updateNeighbors([field EXCEPT ![tilePos] = <<type>>], tilePos)

\* The same recursion one call at a time.  A frame [tilePos, k] is an updateNeighbors call
\* of the tile at tilePos whose loop is about to handle its k-th neighbour; the last
\* frame of the stack is the innermost call.
updateNeighborsStep_alwaysNotify(field, stack) ==
    LET top == stack[Len(stack)]
        nbrs == Neighbors(top.tilePos)
    IN IF top.k > Len(nbrs)
       THEN [field |-> field, stack |-> SubSeq(stack, 1, Len(stack) - 1)]
       ELSE LET nb == nbrs[top.k]
                after == [stack EXCEPT ![Len(stack)].k = @ + 1]
            IN IF Len(field[nb]) = 1 THEN [field |-> field, stack |-> after]
               ELSE LET possibleTiles == reducePossible(field, field[nb], Neighbors(nb), 1)
                    IN [field |-> [field EXCEPT ![nb] = possibleTiles],
                        stack |-> Append(after, [tilePos |-> nb, k |-> 1])]

\* one step of the innermost updateNeighbors call: it returns when its loop is over,
\* otherwise it calls updatePossibleTiles of the next neighbour, which returns at once or
\* stores the reduced list and opens its own updateNeighbors call
updateNeighborsStep(field, stack) ==
    LET top == stack[Len(stack)]
        nbrs == Neighbors(top.tilePos)
    IN IF top.k > Len(nbrs)
       THEN [field |-> field, stack |-> SubSeq(stack, 1, Len(stack) - 1)]
       ELSE LET nb == nbrs[top.k]
                after == [stack EXCEPT ![Len(stack)].k = @ + 1]
            IN IF Len(field[nb]) = 1 THEN [field |-> field, stack |-> after]
               ELSE LET possibleTiles == reducePossible(field, field[nb], Neighbors(nb), 1)
                    IN IF Len(field[nb]) # Len(possibleTiles)
                       THEN [field |-> [field EXCEPT ![nb] = possibleTiles],
                             stack |-> Append(after, [tilePos |-> nb, k |-> 1])]
                       ELSE [field |-> field, stack |-> after]

\* the round trip of node trip.node, recorded when trip.on: phase 0 never attached,
\* 1 attached by addChild under trip.first, 2 detached by detatchChild from trip.first,
\* 3 attached again under another node; starts counts the start() calls of that addChild
NoTrip == [on |-> FALSE, node |-> None, phase |-> 0, first |-> None, starts |-> 0]

tripAfterAdd(p, c, ev) ==
    IF ~trip.on \/ c # trip.node THEN trip
    ELSE [trip EXCEPT !.phase = IF trip.phase = 2 /\ p # trip.first THEN 3 ELSE 1,
                      !.first = IF trip.phase = 2 /\ p # trip.first THEN @ ELSE p,
                      !.starts = Cardinality({i \in 1..Len(ev) : ev[i].e = "start" /\ ev[i].n = c})]

tripAfterDetach(p, ret) ==
    IF ~trip.on \/ ret = None \/ ret # trip.node THEN trip
    ELSE [trip EXCEPT !.phase = 2, !.first = p, !.starts = 0]

InitTree ==
    /\ LASTID = 0
    /\ m_childNodes = [n \in Ids |-> <<>>]
    /\ m_parentNode = [n \in Ids |-> None]
    /\ m_sceneNode = None
    /\ m_geometry = {}
    /\ m_debugUi = {}
    /\ last = [op |-> "init", self |-> None, arg |-> None, ret |-> None, det |-> <<>>, ev |-> <<>>]

Init ==
    /\ InitTree
    /\ trip = NoTrip
    /\ dynType = [n \in Ids |-> ClassOf[((n - 1) % 3) + 1]]
    /\ InitTransform
    /\ InitEngine
    /\ InitTiles

getNewUniqueId_same(lastId) == lastId

\* return ++LASTID: the value returned is also the new value of the counter
getNewUniqueId(lastId) == lastId + 1

\* std::make_shared<...>(): BasicNode::BasicNode takes the next id
NewNode ==
    /\ LASTID < MaxNodes
    /\ LASTID' = getNewUniqueId(LASTID)
    /\ last' = [op |-> "new", self |-> getNewUniqueId(LASTID), arg |-> None, ret |-> None,
                det |-> <<>>, ev |-> <<>>]
    /\ UNCHANGED <<m_childNodes, m_parentNode, m_sceneNode, m_geometry, m_debugUi, trip, rest>>

\* p->addChild(c).  The callers hand over a node that is standalone as far as they can
\* see: it is not the receiver, getParentNode() is empty, it is not the scene root and
\* the receiver is not below it.
AddChild(p, c) ==
    /\ p \in Constructed /\ c \in Constructed
    /\ c # p
    /\ m_parentNode[c] = None
    /\ c # m_sceneNode
    /\ p \notin Subtree(m_childNodes, c)
    /\ Len(m_childNodes[p]) < MaxChildren
    /\ Commit(addChild(Begin, p, c), "addChild", p, c, None, <<>>)
    /\ trip' = tripAfterAdd(p, c, addChild(Begin, p, c).ev)
    /\ UNCHANGED <<LASTID, m_sceneNode, rest>>

\* p->detatchChild(id) and p->detatchChild(node), which forwards node->getNodeId()
DetatchChild(p, id) ==
    /\ p \in Constructed /\ id \in Constructed
    /\ LET r == detatchChild(Begin, p, id)
       IN /\ Commit(r.st, "detatchChild", p, id, r.ret,
                    IF r.ret = None THEN <<>> ELSE <<r.ret>>)
          /\ trip' = tripAfterDetach(p, r.ret)
    /\ UNCHANGED <<LASTID, m_sceneNode, rest>>

\* p->deleteChild(id): detatchChild with the result dropped
DeleteChild(p, id) ==
    /\ p \in Constructed /\ id \in Constructed
    /\ LET r == detatchChild(Begin, p, id)
       IN Commit(r.st, "deleteChild", p, id, None, IF r.ret = None THEN <<>> ELSE <<r.ret>>)
    /\ UNCHANGED <<LASTID, m_sceneNode, trip, rest>>

DetatchAllChildren(p) ==
    /\ p \in Constructed
    /\ LET r == detatchAllChildren(Begin, p)
       IN Commit(r.st, "detatchAllChildren", p, None, None, r.ret)
    /\ UNCHANGED <<LASTID, m_sceneNode, trip, rest>>

\* p->deleteAllChildren(): detatchAllChildren with the result dropped
DeleteAllChildren(p) ==
    /\ p \in Constructed
    /\ LET r == detatchAllChildren(Begin, p)
       IN Commit(r.st, "deleteAllChildren", p, None, None, r.ret)
    /\ UNCHANGED <<LASTID, m_sceneNode, trip, rest>>

DetatchFromParent(n) ==
    /\ n \in Constructed
    /\ Commit(detatchFromParent(Begin, n), "detatchFromParent", n, None, None, <<n>>)
    /\ UNCHANGED <<LASTID, m_sceneNode, trip, rest>>

\* n->deleteNode(): detatchFromParent
DeleteNode(n) ==
    /\ n \in Constructed
    /\ Commit(detatchFromParent(Begin, n), "deleteNode", n, None, None, <<n>>)
    /\ UNCHANGED <<LASTID, m_sceneNode, trip, rest>>

\* engineManager->setScene(n) with a standalone node; arg remembers the old root
SetScene(n) ==
    /\ n \in Constructed
    /\ m_parentNode[n] = None
    /\ LET r == setScene(Begin, m_sceneNode, n)
       IN /\ Commit(r.st, "setScene", n, m_sceneNode, None,
                    IF m_sceneNode = None THEN <<>> ELSE m_childNodes[m_sceneNode])
          /\ m_sceneNode' = r.root
    /\ UNCHANGED <<LASTID, trip, rest>>

Next ==
    \/ NewNode
    \/ \E p, c \in Ids : AddChild(p, c)
    \/ \E p, id \in Ids : DetatchChild(p, id)
    \/ \E p, id \in Ids : DeleteChild(p, id)
    \/ \E p \in Ids : DetatchAllChildren(p)
    \/ \E p \in Ids : DeleteAllChildren(p)
    \/ \E n \in Ids : DetatchFromParent(n)
    \/ \E n \in Ids : DeleteNode(n)
    \/ \E n \in Ids : SetScene(n)

Spec == Init /\ [][Next]_vars

TypeOK ==
    /\ LASTID \in 0..MaxNodes
    /\ \A n \in Ids : Len(m_childNodes[n]) <= MaxChildren
    /\ m_geometry \subseteq Constructed /\ m_debugUi \subseteq Constructed

\* ---------------------------------------------------------------- properties
Registered == m_geometry \cup m_debugUi
Below(ch, n) == Subtree(ch, n) \ {n}
Parents(n) == {p \in Ids : n \in SeqToSet(m_childNodes[p])}
Occurrences(s, x) == Cardinality({i \in 1..Len(s) : s[i] = x})
DetachOps == {"detatchChild", "deleteChild", "detatchAllChildren", "deleteAllChildren",
              "detatchFromParent", "deleteNode"}
Starts == {i \in 1..Len(last.ev) : last.ev[i].e = "start"}

\* C1: neither registry holds an entry for a node that is not reachable from the scene
\* root through child lists.
C1_RegistryOnlyLive == Registered \subseteq Live

\* C2: every node reachable from the scene root through child lists (the root's own slot
\* aside) that is drawable is in the drawable registry, and every such debug-UI node is in
\* the debug-UI registry.
C2_LiveAreRegistered ==
    \A n \in Live \ {m_sceneNode} :
        /\ isGeometry(n) => n \in m_geometry
        /\ isDebugUi(n) => n \in m_debugUi

\* C3: a node is in the child list of at most one node, and at most once in that list.
C3_AtMostOneParent ==
    \A n \in Ids :
        /\ Cardinality(Parents(n)) <= 1
        /\ \A p \in Ids : Occurrences(m_childNodes[p], n) <= 1

\* C4: in addChild(node) start() runs exactly once, as the last statement, after the child
\* was appended, its parent link set to the receiver and its capability registered.
C4_RegisteredBeforeStart ==
    last.op = "addChild" =>
        /\ Cardinality(Starts) = 1
        /\ \A i \in Starts :
            /\ i = Len(last.ev)
            /\ last.ev[i].n = last.arg
            /\ last.ev[i].par = last.self
            /\ (kind(last.arg) # "plain") => last.ev[i].reg
            /\ \E j \in 1..(i - 1) : last.ev[j].e = "emplace_back" /\ last.ev[j].n = last.arg
        /\ last.arg \in SeqToSet(m_childNodes[last.self])

C4_Witness ==
    /\ last.op = "addChild"
    /\ isGeometry(last.arg)
    /\ last.ev[Len(last.ev)].e = "start"
    /\ last.ev[Len(last.ev)].reg

\* C5: after detatchAllChildren() no node of the detached children's subtrees is left in
\* the drawable or the debug-UI registry.
C5_DetachAllUnregistersSubtrees ==
    last.op = "detatchAllChildren" =>
        \A i \in 1..Len(last.det) : Subtree(m_childNodes, last.det[i]) \cap Registered = {}

\* C6: after deleteChild, deleteAllChildren or deleteNode no descendant of a deleted node
\* is left in the drawable or the debug-UI registry.
C6_DeleteUnregistersDescendants ==
    last.op \in {"deleteChild", "deleteAllChildren", "deleteNode"} =>
        \A i \in 1..Len(last.det) : Below(m_childNodes, last.det[i]) \cap Registered = {}

\* C7: after setScene(newRoot) over an existing root, no node of the old tree (the old root
\* and everything that was below it) has a registry entry, and newRoot is the scene root.
C7_SetSceneClearsOldTree ==
    (last.op = "setScene" /\ last.arg # None) =>
        /\ m_sceneNode = last.self
        /\ last.arg \notin Registered
        /\ \A i \in 1..Len(last.det) : Subtree(m_childNodes, last.det[i]) \cap Registered = {}

\* C8: in no detach path is the parent link of a drawable or debug-UI node cleared while
\* the node's registry entry is still present.
C8_UnregisterBeforeParentCleared ==
    last.op \in DetachOps =>
        \A i \in 1..Len(last.ev) :
            ~ /\ last.ev[i].e = "setParent"
              /\ last.ev[i].par = None
              /\ kind(last.ev[i].n) # "plain"
              /\ last.ev[i].reg

\* the vector s without its first element equal to x
WithoutFirst(s, x) ==
    LET i == CHOOSE k \in 1..Len(s) : s[k] = x /\ \A j \in 1..(k - 1) : s[j] # x
    IN SubSeq(s, 1, i - 1) \o SubSeq(s, i + 1, Len(s))

\* C9: detatchChild on a present child removes that one entry from the child list and
\* keeps the order of the others, clears the child's parent link, removes the child's own
\* registry entry and nothing else: every other child list, parent link and registry
\* entry (the child's whole subtree included) and the scene root are as before.
C9_DetachChildFrame ==
    [][(last'.op = "detatchChild" /\ last'.arg \in SeqToSet(m_childNodes[last'.self])) =>
        LET p == last'.self
            c == last'.arg
        IN /\ last'.ret = c
           /\ m_childNodes'[p] = WithoutFirst(m_childNodes[p], c)
           /\ \A q \in Ids \ {p} : m_childNodes'[q] = m_childNodes[q]
           /\ m_parentNode'[c] = None
           /\ \A n \in Ids \ {c} : m_parentNode'[n] = m_parentNode[n]
           /\ m_geometry' = m_geometry \ {c}
           /\ m_debugUi' = m_debugUi \ {c}
           /\ m_sceneNode' = m_sceneNode]_vars

C9_Witness ==
    /\ last.op = "detatchChild"
    /\ last.ret # None
    /\ m_parentNode[last.ret] = None
    /\ Below(m_childNodes, last.ret) \cap Registered # {}
    /\ \A d \in Below(m_childNodes, last.ret) : m_parentNode[d] # None
    /\ Len(m_childNodes[last.self]) >= 2

\* C10: detatchChild(id) with an id that no direct child has returns none and changes no
\* child list, parent link or registry.
C10_DetachAbsentIsNoop ==
    [][(last'.op = "detatchChild" /\ last'.arg \notin SeqToSet(m_childNodes[last'.self])) =>
        /\ last'.ret = None
        /\ UNCHANGED <<m_childNodes, m_parentNode, m_geometry, m_debugUi, m_sceneNode>>]_vars

C10_Witness ==
    /\ last.op = "detatchChild"
    /\ last.ret = None
    /\ last.arg \notin SeqToSet(m_childNodes[last.self])
    /\ m_childNodes[last.self] # <<>>
    /\ last.arg \in Registered

\* C11: detatchFromParent() on a node attached to a parent clears the node's parent link
\* and takes the node out of its former parent's child list.
C11_DetachFromParentLeavesTree ==
    [][(/\ last'.op = "detatchFromParent"
        /\ m_parentNode[last'.self] # None
        /\ last'.self \in SeqToSet(m_childNodes[m_parentNode[last'.self]])) =>
        /\ m_parentNode'[last'.self] = None
        /\ last'.self \notin SeqToSet(m_childNodes'[m_parentNode[last'.self]])]_vars

\* removals of drawable entry c that a call logged
RemovalsOf(ev, c) == {i \in 1..Len(ev) : ev[i].e = "removeGeometry" /\ ev[i].n = c}

InitRoundTrip ==
    /\ InitTree
    /\ dynType = [n \in Ids |-> ClassOf[((n - 1) % 3) + 1]]
    /\ \E g \in {n \in Ids : isGeometry(n)} :
        trip = [on |-> TRUE, node |-> g, phase |-> 0, first |-> None, starts |-> 0]
    /\ InitTransform
    /\ InitEngine
    /\ InitTiles

NextRoundTrip ==
    \/ NewNode
    \/ \E p, c \in Ids : AddChild(p, c)
    \/ \E p, id \in Ids : DetatchChild(p, id)

SpecRoundTrip == InitRoundTrip /\ [][NextRoundTrip]_vars

\* C12: a drawable node attached by addChild is registered and started exactly once; after
\* detatchChild it has no registry entry and no parent; attached again under another node
\* it is that node's child, in one child list once, started once, with one registry entry.
C12_AttachDetachRoundTrip ==
    LET g == trip.node
    IN /\ trip.phase = 1 =>
            /\ g \in m_geometry /\ m_parentNode[g] = trip.first /\ trip.starts = 1
            /\ Occurrences(m_childNodes[trip.first], g) = 1
       /\ trip.phase = 2 => g \notin Registered /\ m_parentNode[g] = None /\ Parents(g) = {}
       /\ trip.phase = 3 =>
            /\ m_parentNode[g] # None /\ m_parentNode[g] # trip.first
            /\ Parents(g) = {m_parentNode[g]}
            /\ Occurrences(m_childNodes[m_parentNode[g]], g) = 1
            /\ trip.starts = 1
            /\ Cardinality({g} \cap m_geometry) = 1 /\ g \notin m_debugUi

C12_Witness ==
    /\ trip.phase = 3
    /\ last.op = "addChild" /\ last.arg = trip.node
    /\ last.self # trip.first
    /\ trip.node \in m_geometry

\* ---------------------------------------------------------------- transform calls (C20)
MaxTransformed == 1

treeVars == <<LASTID, m_childNodes, m_parentNode, m_sceneNode, m_geometry, m_debugUi, last, trip>>

Positions == {<<x, y, 0>> : x \in 0..MaxCoord, y \in 0..MaxCoord}
Scales == {<<x, y, 1>> : x \in 1..MaxScale, y \in 1..MaxScale}
Deltas == {<<1, 0, 0>>, <<0, 1, 0>>, <<-1, 0, 0>>, <<0, -1, 0>>}
Degrees == {0, 90, 180, 270}
Transformed == Constructed \cap (1..MaxTransformed)

MoveObj(n, dirVec) ==
    /\ n \in Constructed
    /\ VecAdd(m_position[n], dirVec) \in Positions
    /\ m_position' = [m_position EXCEPT ![n] = VecAdd(@, dirVec)]
    /\ m_modelMatrix' = [m_modelMatrix EXCEPT
                            ![n] = updateModelMatrix(m_position'[n], m_rotation[n], m_scale[n])]
    /\ UNCHANGED <<treeVars, dynType, tileVars, engineVars, m_rotation, m_scale>>

RotateObj(n, degrees) ==
    /\ n \in Constructed
    /\ m_rotation' = [m_rotation EXCEPT ![n] = quatMul(@, angleAxis(degrees))]
    /\ m_modelMatrix' = [m_modelMatrix EXCEPT
                            ![n] = updateModelMatrix(m_position[n], m_rotation'[n], m_scale[n])]
    /\ UNCHANGED <<treeVars, dynType, tileVars, engineVars, m_position, m_scale>>

\* converts and stores the rotation; the model matrix is not recomputed
SetRotation(n, rotDegrees) ==
    /\ n \in Constructed
    /\ m_rotation' = [m_rotation EXCEPT ![n] = quatFromEuler(rotDegrees)]
    /\ UNCHANGED <<treeVars, dynType, tileVars, engineVars, m_position, m_scale, m_modelMatrix>>

SetPosition(n, pos) ==
    /\ n \in Constructed
    /\ m_position' = [m_position EXCEPT ![n] = pos]
    /\ m_modelMatrix' = [m_modelMatrix EXCEPT
                            ![n] = updateModelMatrix(m_position'[n], m_rotation[n], m_scale[n])]
    /\ UNCHANGED <<treeVars, dynType, tileVars, engineVars, m_rotation, m_scale>>

SetScale(n, scl) ==
    /\ n \in Constructed
    /\ m_scale' = [m_scale EXCEPT ![n] = scl]
    /\ m_modelMatrix' = [m_modelMatrix EXCEPT
                            ![n] = updateModelMatrix(m_position[n], m_rotation[n], m_scale'[n])]
    /\ UNCHANGED <<treeVars, dynType, tileVars, engineVars, m_position, m_rotation>>

NextTransform ==
    \/ NewNode
    \/ \E n \in Transformed, dirVec \in Deltas : MoveObj(n, dirVec)
    \/ \E n \in Transformed, degrees \in Degrees : RotateObj(n, degrees)
    \/ \E n \in Transformed, degrees \in Degrees : SetRotation(n, <<0, 0, degrees>>)
    \/ \E n \in Transformed, pos \in Positions : SetPosition(n, pos)
    \/ \E n \in Transformed, scl \in Scales : SetScale(n, scl)

SpecTransform == Init /\ [][NextTransform]_vars

\* C20: after any sequence of mutator calls the stored local model matrix of a transform
\* equals translation(position) * rotationMatrix(rotation) * scale(scale) of its current
\* position, rotation and scale.
C20_ModelMatrixIsCurrent ==
    \A n \in Constructed :
        m_modelMatrix[n] =
            Mul(Mul(translate(m_position[n]), toMat4(m_rotation[n])), scale(m_scale[n]))

\* ---------------------------------------------------------------- engine calls (C14..C19)
\* the dynamic types of the frame scenes: a camera node, two drawables, a BasicNode, ...
FrameClassOf == <<"camera", "geometry", "geometry", "plain">>

\* the entry of frame.log for one call: what was called, on which node, with which matrix
Call(c, n, mvp) == [c |-> c, n |-> n, mvp |-> mvp]

RECURSIVE Flatten(_)
Flatten(ss) == IF ss = <<>> THEN <<>> ELSE Head(ss) \o Flatten(Tail(ss))

\* the calls f[n] makes for each direct child n, in child-list order
callOnAllChildren(kids, f) == Flatten([i \in 1..Len(kids) |-> f[kids[i]]])

\* virtual hook, empty in BasicNode
update(n) == <<Call("update", n, <<>>)>>

\* camera capability
getProjectionMatrix(cam) == scale(<<2, 2, 1>>)
getViewMatrix(cam) == translate(VecNeg(getGlobalPosition(m_parentNode, m_modelMatrix, cam)))

renderVertices_noNormalCheck(object, mvp) ==
    IF "vertex" \notin m_buffers[object] THEN <<Call("fprintf", object, <<>>)>>
    ELSE IF "texture" \notin m_buffers[object] THEN <<Call("fprintf", object, <<>>)>>
    ELSE <<Call("glDrawArrays", object, mvp)>>

renderVertices(object, mvp) ==
    IF "vertex" \notin m_buffers[object] THEN <<Call("fprintf", object, <<>>)>>
    ELSE IF "normal" \notin m_buffers[object] THEN <<Call("fprintf", object, <<>>)>>
    ELSE IF "texture" \notin m_buffers[object] THEN <<Call("fprintf", object, <<>>)>>
    ELSE <<Call("glDrawArrays", object, mvp)>>

drawNode_localMatrix(node) ==
    IF isGeometry(node)
    THEN LET mvp == Mul(Mul(getProjectionMatrix(m_camera), getViewMatrix(m_camera)),
                        m_modelMatrix[node])
         IN <<Call("renderVertices", node, mvp)>> \o renderVertices(node, mvp)
    ELSE <<>>

drawNode(node) ==
    IF isGeometry(node)
    THEN LET mvp == Mul(Mul(getProjectionMatrix(m_camera), getViewMatrix(m_camera)),
                        getGlobalModelMatrix(m_parentNode, m_modelMatrix, node))
         IN <<Call("renderVertices", node, mvp)>> \o renderVertices(node, mvp)
    ELSE <<>>

engineStart_always ==
    [ret |-> TRUE, log |-> <<Call("start", m_sceneNode, <<>>)>>]

engineStart ==
    IF m_sceneNode = None
    THEN [ret |-> FALSE, log |-> <<Call("cout", None, <<>>)>>]
    ELSE [ret |-> TRUE, log |-> <<Call("start", m_sceneNode, <<>>)>>]

engineUpdate_recursive ==
    callOnAllChildren(callOnAllChildrenRecursiveAndSelf(m_childNodes, m_sceneNode),
                      [n \in Ids |-> update(n)])

engineUpdate == callOnAllChildren(m_childNodes[m_sceneNode], [n \in Ids |-> update(n)])

engineDraw_noCameraCheck ==
    LET garbageDraw(node) ==
            IF isGeometry(node) THEN <<Call("renderVertices", node, Identity)>> ELSE <<>>
    IN IF m_camera # None
       THEN <<Call("glClear", None, <<>>)>>
                \o callOnAllChildren(m_childNodes[m_sceneNode], [n \in Ids |-> drawNode(n)])
       ELSE <<Call("glClear", None, <<>>)>>
                \o callOnAllChildren(m_childNodes[m_sceneNode], [n \in Ids |-> garbageDraw(n)])

engineDraw ==
    IF m_camera # None
    THEN <<Call("glClear", None, <<>>)>>
            \o callOnAllChildren(m_childNodes[m_sceneNode], [n \in Ids |-> drawNode(n)])
    ELSE <<Call("fprintf", None, <<>>)>>

\* the position of the frame loop
Phase ==
    CASE frame.op = "init" -> "uninitialized"
      [] frame.op = "engineStart" -> IF frame.ret THEN "started" ELSE "uninitialized"
      [] frame.op = "engineUpdate" -> "update"
      [] frame.op = "engineDraw" -> "draw"

\* the draw pass of the frame that ends ran without a camera
Skipped ==
    /\ frame.op = "engineDraw"
    /\ \A i \in 1..Len(frame.log) : frame.log[i].c # "glClear"

SetCamera(cam) ==
    /\ cam \in Constructed
    /\ kind(cam) = "camera"
    /\ m_camera' = cam
    /\ UNCHANGED <<treeVars, dynType, tileVars, transformVars, m_buffers, frame>>

SetObjectData(n, objectData) ==
    /\ n \in Constructed
    /\ isGeometry(n)
    /\ m_buffers' = [m_buffers EXCEPT ![n] = (@ \cap {"texture"}) \cup objectData]
    /\ UNCHANGED <<treeVars, dynType, tileVars, transformVars, m_camera, frame>>

SetTextureBuffer(n) ==
    /\ n \in Constructed
    /\ isGeometry(n)
    /\ m_buffers' = [m_buffers EXCEPT ![n] = @ \cup {"texture"}]
    /\ UNCHANGED <<treeVars, dynType, tileVars, transformVars, m_camera, frame>>

EngineStart ==
    /\ Phase = "uninitialized"
    /\ frame' = [op |-> "engineStart", ret |-> engineStart.ret, skipped |-> FALSE,
                 log |-> engineStart.log]
    /\ UNCHANGED <<treeVars, dynType, tileVars, transformVars, m_camera, m_buffers>>

EngineUpdate ==
    /\ Phase \in {"started", "draw"}
    /\ frame' = [op |-> "engineUpdate", ret |-> frame.ret, skipped |-> Skipped,
                 log |-> engineUpdate]
    /\ UNCHANGED <<treeVars, dynType, tileVars, transformVars, m_camera, m_buffers>>

EngineDraw_beforeUpdates ==
    /\ Phase = "update"
    /\ frame' = [frame EXCEPT !.op = "engineDraw", !.log = engineDraw \o @]
    /\ UNCHANGED <<treeVars, dynType, tileVars, transformVars, m_camera, m_buffers>>

EngineDraw ==
    /\ Phase = "update"
    /\ frame' = [frame EXCEPT !.op = "engineDraw", !.log = @ \o engineDraw]
    /\ UNCHANGED <<treeVars, dynType, tileVars, transformVars, m_camera, m_buffers>>

InitFrame ==
    /\ InitTree
    /\ trip = NoTrip
    /\ dynType = [n \in Ids |-> FrameClassOf[((n - 1) % 4) + 1]]
    /\ InitTransform
    /\ InitEngine
    /\ InitTiles

\* the positions the frame scenes use: along the x axis
FramePositions == {<<x, 0, 0>> : x \in 0..MaxCoord}

NextFrame ==
    \/ NewNode
    \/ \E p, c \in Ids : AddChild(p, c)
    \/ \E n \in Ids : SetScene(n)
    \/ \E n \in Transformed, pos \in FramePositions : SetPosition(n, pos)
    \/ \E cam \in Ids : SetCamera(cam)
    \/ EngineStart
    \/ EngineUpdate
    \/ EngineDraw

SpecFrame == InitFrame /\ [][NextFrame]_vars

NextRender ==
    \/ NewNode
    \/ \E p, c \in Ids : AddChild(p, c)
    \/ \E n \in Ids : SetScene(n)
    \/ \E cam \in Ids : SetCamera(cam)
    \/ \E n \in Ids, objectData \in {{"vertex"}, {"vertex", "normal"}} :
            SetObjectData(n, objectData)
    \/ \E n \in Ids : SetTextureBuffer(n)
    \/ EngineStart
    \/ EngineUpdate
    \/ EngineDraw

SpecRender == InitFrame /\ [][NextRender]_vars

\* ---------------------------------------------------------------- frame properties
StartStep == frame' # frame /\ frame'.op = "engineStart"
UpdateStep == frame.op \in {"engineStart", "engineDraw"} /\ frame'.op = "engineUpdate"
DrawStep == frame.op = "engineUpdate" /\ frame'.op = "engineDraw"

CallsOf(log, c) == {i \in 1..Len(log) : log[i].c = c}
\* the calls the draw pass of this step added to the log of the frame
DrawPart == SubSeq(frame'.log, Len(frame.log) + 1, Len(frame'.log))
isRender(entry) == entry.c = "renderVertices"

\* C14: engineStart() with no scene root returns failure, calls no node's start() and
\* leaves the engine not started; with a scene root it calls the root's start() exactly
\* once and returns success.
C14_EngineStart ==
    [][StartStep =>
        IF m_sceneNode = None
        THEN /\ ~frame'.ret
             /\ CallsOf(frame'.log, "start") = {}
             /\ Phase' = "uninitialized"
        ELSE /\ frame'.ret
             /\ Cardinality(CallsOf(frame'.log, "start")) = 1
             /\ \A i \in CallsOf(frame'.log, "start") : frame'.log[i].n = m_sceneNode
             /\ Phase' = "started"]_vars

C14_Witness ==
    /\ frame.op = "engineStart" /\ ~frame.ret
    /\ m_sceneNode = None
    /\ LASTID > 0
    /\ CallsOf(frame.log, "start") = {}

\* C15: a draw pass with no camera set calls no shader, changes no tree or registry state
\* and leaves the frame loop running; a draw pass of a later frame, after setCamera, calls
\* the shader of each drawable child of the root.
C15_DrawWithoutCamera ==
    [][/\ (DrawStep /\ m_camera = None) =>
            /\ CallsOf(DrawPart, "renderVertices") = {}
            /\ CallsOf(DrawPart, "glDrawArrays") = {}
            /\ CallsOf(DrawPart, "glClear") = {}
            /\ UNCHANGED <<m_childNodes, m_parentNode, m_sceneNode, m_geometry, m_debugUi>>
            /\ Phase' = "draw"
       /\ (DrawStep /\ m_camera # None /\ frame.skipped) =>
            Cardinality(CallsOf(DrawPart, "renderVertices")) =
                Len(SelectSeq(m_childNodes[m_sceneNode], isGeometry))]_vars

C15_Witness ==
    /\ frame.op = "engineDraw"
    /\ frame.skipped
    /\ m_camera # None
    /\ CallsOf(frame.log, "renderVertices") # {}

C17_UpdateDirectChildren ==
    [][UpdateStep =>
        LET kids == m_childNodes[m_sceneNode]
        IN /\ Len(frame'.log) = Len(kids)
           /\ \A i \in 1..Len(kids) : frame'.log[i] = Call("update", kids[i], <<>>)
           /\ \A n \in Ids \ SeqToSet(kids) :
                \A i \in 1..Len(frame'.log) : frame'.log[i].n # n]_vars

C17_Witness ==
    /\ frame.op = "engineUpdate"
    /\ m_sceneNode # None
    /\ Len(m_childNodes[m_sceneNode]) = 1
    /\ frame.log = <<Call("update", m_childNodes[m_sceneNode][1], <<>>)>>
    /\ m_childNodes[frame.log[1].n] # <<>>

C19_MissingBufferSkipsOne ==
    [][(DrawStep /\ m_camera # None) =>
        \A k \in SeqToSet(m_childNodes[m_sceneNode]) :
            LET draws == {i \in CallsOf(DrawPart, "glDrawArrays") : DrawPart[i].n = k}
                calls == {i \in CallsOf(DrawPart, "renderVertices") : DrawPart[i].n = k}
            IN /\ isGeometry(k) => Cardinality(calls) = 1
               /\ (isGeometry(k) /\ m_buffers[k] = Buffers) => Cardinality(draws) = 1
               /\ (isGeometry(k) /\ m_buffers[k] # Buffers) => draws = {}
               /\ ~isGeometry(k) => draws = {}]_vars

C19_Witness ==
    /\ frame.op = "engineDraw"
    /\ \E i \in CallsOf(frame.log, "fprintf"), j \in CallsOf(frame.log, "glDrawArrays") :
        /\ i < j
        /\ frame.log[i].n # None
        /\ "normal" \notin m_buffers[frame.log[i].n]
        /\ "vertex" \in m_buffers[frame.log[i].n]
        /\ frame.log[j].n # frame.log[i].n

\* C23: a constructed node gets an id greater than the id of every node constructed
\* before it, whether or not those nodes are still in a tree.
C23_IdsIncrease ==
    [][last'.op = "new" =>
        /\ LASTID' > LASTID
        /\ last'.self = LASTID'
        /\ \A n \in Constructed : n < last'.self]_vars

C23_Witness ==
    /\ last.op = "new" /\ last.self = LASTID /\ LASTID >= 2
    /\ \E n \in Constructed : n < last.self /\ m_childNodes[n] # <<>>

\* every node is once in the child list of its parent and in no other child list, and no
\* node is below itself
WellFormed ==
    /\ \A p, c \in Constructed :
        Occurrences(m_childNodes[p], c) = IF m_parentNode[c] = p THEN 1 ELSE 0
    /\ \A n \in Constructed :
        \A i \in 1..Len(m_childNodes[n]) : n \notin Subtree(m_childNodes, m_childNodes[n][i])

\* the positions of node x in a walk
At(visit, x) == {i \in 1..Len(visit) : visit[i] = x}

\* visit is the post-order of the subtree of n: every node of the subtree once, each node
\* after everything below it, the subtrees of siblings one after the other in child-list
\* order, n last
PostOrder(visit, n) ==
    LET sub == Subtree(m_childNodes, n)
    IN /\ \A x \in Ids : Cardinality(At(visit, x)) = IF x \in sub THEN 1 ELSE 0
       /\ visit[Len(visit)] = n
       /\ \A x \in sub : \A y \in Subtree(m_childNodes, x) \ {x} :
            \A i \in At(visit, y), j \in At(visit, x) : i < j
       /\ \A x \in sub : \A a, b \in 1..Len(m_childNodes[x]) :
            a < b =>
                \A y \in Subtree(m_childNodes, m_childNodes[x][a]),
                   z \in Subtree(m_childNodes, m_childNodes[x][b]) :
                    \A i \in At(visit, y), j \in At(visit, z) : i < j

\* the nodes the unregister lambda ran on during the last call, in call order
RECURSIVE UnregisteredBy(_)
UnregisteredBy(ev) ==
    IF ev = <<>> THEN <<>>
    ELSE (IF Head(ev).e = "removeGeometry" THEN <<Head(ev).n>> ELSE <<>>)
         \o UnregisteredBy(Tail(ev))

\* C24: on a well-formed tree callOnAllChildrenRecursiveAndSelf calls func once on every
\* node of the subtree in post-order, self last, and callOnAllChildrenRecursive makes the
\* same calls in the same order without the one on self; the unregister walk of
\* detatchFromParent is that walk.
C24_PostOrderWalk ==
    /\ WellFormed =>
        \A n \in Constructed :
            LET visit == callOnAllChildrenRecursiveAndSelf(m_childNodes, n)
            IN /\ PostOrder(visit, n)
               /\ callOnAllChildrenRecursive(m_childNodes, n) = SubSeq(visit, 1, Len(visit) - 1)
    /\ last.op = "detatchFromParent" =>
        UnregisteredBy(last.ev) = callOnAllChildrenRecursiveAndSelf(m_childNodes, last.self)

C24_Witness ==
    /\ WellFormed
    /\ last.op = "detatchFromParent"
    /\ Len(m_childNodes[last.self]) = 2
    /\ UnregisteredBy(last.ev) = m_childNodes[last.self] \o <<last.self>>
    /\ callOnAllChildrenRecursive(m_childNodes, last.self) = m_childNodes[last.self]

\* C25: detatchAllChildren returns the former children in child-list order, each without
\* parent link and with its subtree as it was (child lists and descendants' parent
\* links), and leaves the node with an empty child list and its own parent link.
C25_DetachAllFrame ==
    [][last'.op = "detatchAllChildren" =>
        /\ last'.det = m_childNodes[last'.self]
        /\ \A i \in 1..Len(last'.det) :
            /\ m_parentNode'[last'.det[i]] = None
            /\ \A x \in Subtree(m_childNodes, last'.det[i]) :
                /\ m_childNodes'[x] = m_childNodes[x]
                /\ x # last'.det[i] => m_parentNode'[x] = m_parentNode[x]
        /\ m_childNodes'[last'.self] = <<>>
        /\ m_parentNode'[last'.self] = m_parentNode[last'.self]]_vars

\* C27: parent links and child lists agree: c is in the child list of p exactly if the
\* parent link of c refers to p.
C27_LinksAgree ==
    \A p, c \in Constructed : c \in SeqToSet(m_childNodes[p]) <=> m_parentNode[c] = p

\* ---------------------------------------------------------------- attach below itself
\* p->addChild(c) as the code accepts it from a caller that looks at c only: c is not
\* the receiver, has no parent and is not the scene root.  Nothing in addChild looks at
\* where the receiver hangs.
AddChildUnchecked(p, c) ==
    /\ p \in Constructed /\ c \in Constructed
    /\ c # p
    /\ m_parentNode[c] = None
    /\ c # m_sceneNode
    /\ Len(m_childNodes[p]) < MaxChildren
    /\ Commit(addChild(Begin, p, c), "addChild", p, c, None, <<>>)
    /\ trip' = tripAfterAdd(p, c, addChild(Begin, p, c).ev)
    /\ UNCHANGED <<LASTID, m_sceneNode, rest>>

NextCycle ==
    \/ NewNode
    \/ \E p, c \in Ids : AddChildUnchecked(p, c)
    \/ \E p, id \in Ids : DetatchChild(p, id)

SpecCycle == Init /\ [][NextCycle]_vars

\* the nodes reached from the frontier through parent links
RECURSIVE Up(_, _, _)
Up(par, frontier, seen) ==
    IF frontier = {} THEN seen
    ELSE LET nxt == {par[n] : n \in frontier} \ (seen \cup {None})
         IN Up(par, nxt, seen \cup nxt)

\* C28: the graph is a forest: no node is reached from itself through one or more child
\* list entries, nor through one or more parent links.
C28_Forest ==
    \A n \in Constructed :
        /\ n \notin Reach(m_childNodes, SeqToSet(m_childNodes[n]), SeqToSet(m_childNodes[n]))
        /\ n \notin Up(m_parentNode, {m_parentNode[n]} \ {None}, {m_parentNode[n]} \ {None})

\* C29: a draw pass that computes an MVP does so from a camera that is reachable from the
\* scene root, and at every draw pass the camera is unset or reachable from the root.
C29_CameraInLiveTree ==
    [][DrawStep =>
        /\ m_camera = None \/ m_camera \in Live
        /\ CallsOf(DrawPart, "renderVertices") # {} => m_camera \in Live]_vars

\* ---------------------------------------------------------------- tile placement
otherVars == <<treeVars, dynType, transformVars, engineVars>>

\* field[x][y]->setTile(type, renderManager, field)
SetTile(tilePos, type) ==
    /\ m_possibleTiles' = setTile(m_possibleTiles, tilePos, type)
    /\ m_tilePlaced' = [m_tilePlaced EXCEPT ![tilePos] = TRUE]
    /\ UNCHANGED <<prop, otherVars>>

\* field[x][y]->updatePossibleTiles(field)
UpdatePossibleTiles(tilePos) ==
    /\ m_possibleTiles' = updatePossibleTiles(m_possibleTiles, tilePos)
    /\ UNCHANGED <<m_tilePlaced, prop, otherVars>>

NextTiles ==
    \/ \E tilePos \in Cells, type \in SeqToSet(GetAllTiles) : SetTile(tilePos, type)
    \/ \E tilePos \in Cells : UpdatePossibleTiles(tilePos)

SpecTiles == Init /\ [][NextTiles]_vars

\* C30: the set of possible types of every tile only shrinks and is never empty; a set of
\* one type therefore stays as it is.
C30_PossibleTilesShrink ==
    [][\A cell \in Cells :
        /\ m_possibleTiles'[cell] # <<>>
        /\ SeqToSet(m_possibleTiles'[cell]) \subseteq SeqToSet(m_possibleTiles[cell])
        /\ Len(m_possibleTiles[cell]) = 1 => m_possibleTiles'[cell] = m_possibleTiles[cell]]_vars

\* ---------------------------------------------------------------- transforms in a tree
\* (C21, C22, C26) nodes are attached and detached while their transforms change
ChainPositions == {ZeroVec, <<1, 0, 0>>, <<0, 1, 0>>}
ChainScales == {OneVec, <<2, 1, 1>>}

NextChain ==
    \/ NewNode
    \/ \E p, c \in Ids : AddChild(p, c)
    \/ \E p, id \in Ids : DetatchChild(p, id)
    \/ \E n \in Ids, pos \in ChainPositions : SetPosition(n, pos)
    \/ \E n \in Transformed, scl \in ChainScales : SetScale(n, scl)
    \/ \E n \in Transformed : RotateObj(n, 180)
    \/ \E n \in Transformed : SetRotation(n, ZeroVec)

SpecChain == Init /\ [][NextChain]_vars

\* the stored local matrix is the one updateModelMatrix computes from the stored
\* position, rotation and scale
Current(n) == m_modelMatrix[n] = updateModelMatrix(m_position[n], m_rotation[n], m_scale[n])
Plain(n) == Current(n) /\ m_rotation[n] = 0 /\ m_scale[n] = OneVec
GlobalMatrix(n) == getGlobalModelMatrix(m_parentNode, m_modelMatrix, n)
GlobalPosition(n) == getGlobalPosition(m_parentNode, m_modelMatrix, n)

\* C21: the global matrix of a node is its parent's global matrix times its local matrix,
\* or its local matrix if it has no parent; in a chain root - child - grandchild without
\* rotation or scale, at the origin, (1,0,0) and (0,1,0), the grandchild is at (1,1,0).
C21_GlobalMatrixComposes ==
    /\ \A n \in Constructed :
        GlobalMatrix(n) =
            IF m_parentNode[n] # None
            THEN Mul(GlobalMatrix(m_parentNode[n]), m_modelMatrix[n])
            ELSE m_modelMatrix[n]
    /\ \A r, c, g \in Constructed :
        (/\ m_parentNode[g] = c /\ m_parentNode[c] = r /\ m_parentNode[r] = None
         /\ Plain(r) /\ Plain(c) /\ Plain(g)
         /\ m_position[r] = ZeroVec /\ m_position[c] = <<1, 0, 0>>
         /\ m_position[g] = <<0, 1, 0>>) => GlobalPosition(g) = <<1, 1, 0>>

C21_Witness ==
    \E r, c, g \in Constructed :
        /\ m_parentNode[g] = c /\ m_parentNode[c] = r /\ m_parentNode[r] = None
        /\ Plain(r) /\ Plain(c) /\ Plain(g)
        /\ m_position[r] = ZeroVec /\ m_position[c] = <<1, 0, 0>> /\ m_position[g] = <<0, 1, 0>>
        /\ GlobalPosition(g) = <<1, 1, 0>>

\* C22: under a parent without parent and without rotation the global position of a child
\* is the parent's position plus, per axis, the parent's scale times the child's local
\* position; scale (2,1,1) at the origin puts a child at (1,0,0) to (2,0,0).
C22_ScaleBleedsIntoChild ==
    \A p, c \in Constructed :
        (/\ m_parentNode[c] = p /\ m_parentNode[p] = None
         /\ Current(p) /\ Current(c) /\ m_rotation[p] = 0) =>
            GlobalPosition(c) =
                <<m_position[p][1] + m_scale[p][1] * m_position[c][1],
                  m_position[p][2] + m_scale[p][2] * m_position[c][2],
                  m_position[p][3] + m_scale[p][3] * m_position[c][3]>>

C22_Witness ==
    \E p, c \in Constructed :
        /\ m_parentNode[c] = p /\ m_parentNode[p] = None
        /\ Current(p) /\ Current(c) /\ m_rotation[p] = 0
        /\ m_scale[p] = <<2, 1, 1>> /\ m_position[p] = ZeroVec
        /\ m_position[c] = <<1, 0, 0>>
        /\ GlobalPosition(c) = <<2, 0, 0>>

\* the parent chain of a node, from its topmost ancestor down to the node
RECURSIVE Chain(_, _)
Chain(par, n) == IF par[n] = None THEN <<n>> ELSE Append(Chain(par, par[n]), n)

\* the product of the stored local matrices along a chain, from the top
RECURSIVE Product(_, _)
Product(mm, chain) ==
    IF Len(chain) = 1 THEN mm[chain[1]] ELSE Mul(mm[Head(chain)], Product(mm, Tail(chain)))

EnterSetTile(tilePos, type) ==
    /\ prop.stack = <<>>
    /\ m_possibleTiles' = [m_possibleTiles EXCEPT ![tilePos] = <<type>>]
    /\ m_tilePlaced' = [m_tilePlaced EXCEPT ![tilePos] = TRUE]
    /\ prop' = [stack |-> <<[tilePos |-> tilePos, k |-> 1]>>, on |-> TRUE,
                field |-> m_possibleTiles, tilePos |-> tilePos, type |-> type]
    /\ UNCHANGED otherVars

\* the running call goes on by one step
UpdateNeighborsStep ==
    /\ prop.stack # <<>>
    /\ LET r == updateNeighborsStep(m_possibleTiles, prop.stack)
       IN /\ m_possibleTiles' = r.field
          /\ prop' = [prop EXCEPT !.stack = r.stack]
    /\ UNCHANGED <<m_tilePlaced, otherVars>>

NextPropagate ==
    \/ \E tilePos \in Cells, type \in SeqToSet(GetAllTiles) : EnterSetTile(tilePos, type)
    \/ UpdateNeighborsStep

\* a call that has started keeps running: the program is sequential
SpecPropagate == Init /\ [][NextPropagate]_vars /\ WF_vars(UpdateNeighborsStep)

\* no call is running
Returned == prop.stack = <<>>

\* no updatePossibleTiles call on any tile would change a list
Settled == \A cell \in Cells : updatePossibleTiles(m_possibleTiles, cell) = m_possibleTiles

RECURSIVE SumLen(_, _)
SumLen(field, cells) ==
    IF cells = {} THEN 0
    ELSE LET cell == CHOOSE c \in cells : TRUE
         IN Len(field[cell]) + SumLen(field, cells \ {cell})

\* C31: the propagation a setTile call starts terminates in a field that no further
\* updatePossibleTiles call changes: a tile opens an updateNeighbors call only when its
\* own list has strictly shrunk, so the nesting is bounded by the types that can be lost.
C31_PropagationTerminates ==
    /\ [](Len(prop.stack) <= 1 + Cardinality(Cells) * (Len(GetAllTiles) - 1))
    /\ [][(prop.stack # <<>> /\ Len(prop'.stack) > Len(prop.stack)) =>
            LET nb == prop'.stack[Len(prop'.stack)].tilePos
            IN /\ Len(m_possibleTiles'[nb]) < Len(m_possibleTiles[nb])
               /\ SumLen(m_possibleTiles', Cells) < SumLen(m_possibleTiles, Cells)]_vars
    /\ []((Returned /\ prop.on) =>
            /\ Settled
            /\ m_possibleTiles = setTile(prop.field, prop.tilePos, prop.type))
    /\ (~Returned) ~> Returned

C31_Witness ==
    /\ Returned /\ prop.on /\ Settled
    /\ Cardinality({cell \in Cells : Len(m_possibleTiles[cell]) < Len(prop.field[cell])}) >= 2
    /\ \E cell \in Cells : Len(m_possibleTiles[cell]) >= 2

====
